---- MODULE Spec2Model ----
(***************************************************************************)
(* Model of RL_rubiks: the Monte Carlo Tree Search engine (src/mcts.py)    *)
(* and the Autodidactic Iteration trainer (src/adi.py).                    *)
(*                                                                         *)
(* Numbers.  The evaluator's outputs (priors, value estimates) are floats  *)
(* in [0,1); they are modelled as the rationals j/Grain, j in 0..Grain-1,  *)
(* and every total_value is kept as an integer count of 1/Grain units, so  *)
(* "total_value -= 1" is "- Grain" and "+= value_estimate + 1" is          *)
(* "+ v + Grain".  Q() + U() of two children is compared exactly (over the *)
(* reals, the square root included), not in binary floating point.         *)
(***************************************************************************)
EXTENDS Integers, Sequences, FiniteSets, TLC

\* ------------------------------------------------------------------ bounds
\* Length of the prior vector the evaluator returns (362 in the stub).
NumMoves == 2
\* Largest num_reads passed to UCT_search.
MaxReads == 3
\* Largest number of method calls a client of UCTNode makes (SpecAPI).
MaxCalls == 4
\* Largest batches_number passed to train.
MaxBatches == 2
\* Cap on current_iteration and on the number of fits in a run of the model.
MaxIter == 3
\* lr_decay_freq, save_frequency and log_frequency passed to train
\* (1000, 10 and 5 by default).
LrDecayFreq == 2
SaveFrequency == 2
LogFrequency == 3
\* Number of legal moves, len(rubiks_cube.actions) (12 for the 3x3 cube).
NumActions == 3
\* Largest k (scrambles per sequence) and l (sequences) of a scramble run.
MaxK == 3
MaxL == 2
\* Number of samples in a batch whose targets are computed.
BatchSize == 1
\* ------------------------------------------------------- program values
\* Resolution of the evaluator's outputs: multiples of 1/Grain in [0,1).
Grain == 2
\* Constructor defaults that appear in checkpoint names.
cube_dim == 3
k_default == 25
l_default == 40000

VARIABLES
    nodes,          \* the tree: nodes[i] is the UCTNode with handle i, root = 1
    pc,             \* position in UCT_search / in the method being run
    current,        \* the local `current` of select_leaf and of backup
    leaf,           \* the node select_leaf returned last (0: none yet)
    value_estimate, \* the value the evaluator returned for leaf
    num_reads,      \* argument of UCT_search
    reads,          \* completed iterations of UCT_search's loop
    result,         \* what UCT_search returned: <<move, child>>, <<>> before
    caller,         \* who runs the methods: "UCT_search" or "client" (SpecAPI)
    calls,          \* SpecAPI: method calls the client made so far
    pre,            \* history: the tree when the running/last method was called
    target,         \* history: the node the running/last method was called on
    last,           \* history: the method that completed last
    \* ---- ADI orchestrator (src/adi.py)
    config,         \* constructor flags: create_dataset, save_model, save_log
    X,              \* "dataset" when self.X / self.weights hold arrays, else "None"
    current_iteration,
    model,          \* self.model: architecture, weights, optimizer, learning rate
    files,          \* the file system: path -> content, for the paths written
    log_lines,      \* lines appended to the log file
    tpc,            \* "idle", or "train" while train's loop runs
    targs,          \* arguments of the running train call
    batches_left,   \* iterations of train's loop still to run
    fits,           \* calls of model.fit so far (names the weights they produce)
    raised,         \* the exception the last call ended with, or "None"
    start_iteration,\* history: current_iteration at construction or last load
    processed,      \* history: batches processed since construction or last load
    fresh,          \* history: self.model is still the model built at construction
    pending_save,   \* history: the save_trained_model call not yet followed by training
    trip,           \* history: the load_trained_model call that followed pending_save
    \* ---- the scramble loops of _generate_dataset / estimate_naive_accuracy
    who,            \* the method running the loops
    k_arg,          \* k, or depth
    l_arg,          \* l, or iterations
    spc,            \* "outer", "inner" or "done"
    iteration,      \* the outer loop's index
    shuffle,        \* the inner loop's index (shuffle, or depth_i)
    inverse_previous_action_idx,
    applied,        \* the action indices applied to the current cube, in order
    weights,        \* _generate_dataset: denominators d of the weights 1/d appended
    score,          \* estimate_naive_accuracy's score
    \* ---- the target computation of a batch in train
    qpc,            \* "step", "predict", "targets" or "done"
    net,            \* the current network's value for each child (sample, action)
    rewards,        \* rewards[i][a + 1]: reward of action a on sample i
    states,         \* states[i][a + 1]: the child state, named <<i, a>>
    values,         \* model.predict's value output, reshaped: values[i][a + 1]
    Y_v,            \* the value targets, one per sample
    Y_p             \* the policy targets, one row per sample

mvars == <<nodes, pc, current, leaf, value_estimate, num_reads, reads, result,
           caller, calls, pre, target, last>>

avars == <<config, X, current_iteration, model, files, log_lines, tpc, targs,
           batches_left, fits, raised, start_iteration, processed, fresh,
           pending_save, trip>>

svars == <<who, k_arg, l_arg, spc, iteration, shuffle,
           inverse_previous_action_idx, applied, weights, score>>

tvars == <<qpc, net, rewards, states, values, Y_v, Y_p>>

vars == <<mvars, avars, svars, tvars>>

None == 0
Root == 1
Moves == 0 .. (NumMoves - 1)
EvalOutputs == 0 .. (Grain - 1)
PriorVectors == [1 .. NumMoves -> EvalOutputs]

\* UCTNode.__init__: a fresh node.  children[m + 1] is the child for move m.
UCTNode(parent, prior) ==
    [parent |-> parent, prior |-> prior, is_expanded |-> FALSE,
     children |-> << >>, total_value |-> 0, number_visits |-> 0]

\* Q() + U() of node a is greater than Q() + U() of node b in tree t.
\* Q = total_value / (1 + number_visits),
\* U = sqrt(parent.number_visits) * prior / (1 + number_visits).
\* With A, B as below the difference of the two keys has the sign of
\* A + B * sqrt(parent.number_visits), decided exactly by squaring.
KeyGreater(t, a, b) ==
    LET na == 1 + t[a].number_visits
        nb == 1 + t[b].number_visits
        pv == t[t[a].parent].number_visits
        A  == t[a].total_value * nb - t[b].total_value * na
        B  == t[a].prior * nb - t[b].prior * na
    IN  IF A >= 0 /\ B >= 0 THEN A > 0 \/ (B > 0 /\ pv > 0)
        ELSE IF A <= 0 /\ B <= 0 THEN FALSE
        ELSE IF A > 0 THEN A * A > B * B * pv
        ELSE B * B * pv > A * A

\* Python's max(seq, key), computed as the interpreter does: left to right,
\* replacing the best so far only by an element of strictly greater key, so
\* the first of several maximal elements wins.
RECURSIVE MaxFrom(_, _, _, _)
MaxFrom(t, seq, i, best) ==
    IF i > Len(seq) THEN best
    ELSE MaxFrom(t, seq, i + 1,
                 IF KeyGreater(t, seq[i], best) THEN seq[i] ELSE best)

\* UCTNode.best_child
best_child(t, n) == MaxFrom(t, t[n].children, 2, t[n].children[1])

\* Variants of VirtualLoss with one of its two assignments missing.
VirtualLossNoVisit(t, n) == [t EXCEPT ![n].total_value = @ - Grain]

VirtualLossNoValue(t, n) == [t EXCEPT ![n].number_visits = @ + 1]

\* The body of select_leaf's loop on `current`: the virtual loss.
VirtualLoss(t, n) ==
    [t EXCEPT ![n].number_visits = @ + 1, ![n].total_value = @ - Grain]

\* UCTNode.expand with add_child: mark n expanded, attach one fresh child per
\* move, in move order; the new nodes take the next free handles.
expand(t, n, child_priors) ==
    LET k == Len(t)
        kids == [m \in 1 .. Len(child_priors) |-> k + m]
        added == [m \in 1 .. Len(child_priors) |-> UCTNode(n, child_priors[m])]
    IN  [t EXCEPT ![n].is_expanded = TRUE, ![n].children = kids] \o added

\* Variants of BackupAdd: the virtual loss not given back; the visit counted
\* on the way up as well as on the way down.
BackupAddNoUndo(t, n, v) == [t EXCEPT ![n].total_value = @ + v]

BackupAddCountsVisit(t, n, v) ==
    [t EXCEPT ![n].total_value = @ + v + Grain, ![n].number_visits = @ + 1]

\* One turn of backup's loop on `current`.
BackupAdd(t, n, v) == [t EXCEPT ![n].total_value = @ + v + Grain]

RECURSIVE MaxVisitsLast(_, _, _, _)
\* Variant of MaxVisits that lets a later item of equal visits win.
MaxVisitsLast(t, seq, i, best) ==
    IF i > Len(seq) THEN best
    ELSE MaxVisitsLast(t, seq, i + 1,
                       IF t[seq[i]].number_visits >= t[seq[best]].number_visits
                       THEN i ELSE best)

\* max(root.children.items(), key = number_visits): first maximal item.
RECURSIVE MaxVisits(_, _, _, _)
MaxVisits(t, seq, i, best) ==
    IF i > Len(seq) THEN best
    ELSE MaxVisits(t, seq, i + 1,
                   IF t[seq[i]].number_visits > t[seq[best]].number_visits
                   THEN i ELSE best)

\* UCT_search's return value: (move, child).
SearchResult(t) ==
    LET i == MaxVisits(t, t[Root].children, 2, 1)
    IN  <<i - 1, t[Root].children[i]>>

\* ------------------------------------------------------------ actions
MInit ==
    /\ nodes = << UCTNode(None, 0) >>
    /\ pc = "loop"
    /\ current = None
    /\ leaf = None
    /\ value_estimate = 0
    /\ num_reads \in 1 .. MaxReads
    /\ reads = 0
    /\ result = << >>
    /\ caller = "UCT_search"
    /\ calls = 0
    /\ pre = nodes
    /\ target = None
    /\ last = "none"

\* UCT_search line 53: leaf = root.select_leaf()
CallSelectLeaf ==
    /\ pc = "loop"
    /\ reads < num_reads
    /\ pc' = "select"
    /\ current' = Root
    /\ pre' = nodes
    /\ target' = Root
    /\ UNCHANGED <<nodes, leaf, value_estimate, num_reads, reads, result,
                   caller, calls, last>>
    /\ UNCHANGED <<avars, svars, tvars>>

\* select_leaf, one turn of the loop: current is expanded.
SelectStep ==
    /\ pc = "select"
    /\ nodes[current].is_expanded
    /\ nodes' = VirtualLoss(nodes, current)
    /\ current' = best_child(nodes', current)
    /\ UNCHANGED <<pc, leaf, value_estimate, num_reads, reads, result,
                   caller, calls, pre, target, last>>
    /\ UNCHANGED <<avars, svars, tvars>>

\* select_leaf returns: current is not expanded.
SelectReturn ==
    /\ pc = "select"
    /\ ~nodes[current].is_expanded
    /\ leaf' = current
    /\ last' = "select_leaf"
    /\ pc' = IF caller = "client" THEN "idle" ELSE "evaluate"
    /\ UNCHANGED <<nodes, current, value_estimate, num_reads, reads, result,
                   caller, calls, pre, target>>
    /\ UNCHANGED <<avars, svars, tvars>>

\* UCT_search lines 54-56, up to the call of backup: evaluate, expand.
EvaluateExpand ==
    /\ pc = "evaluate"
    /\ \E child_priors \in PriorVectors, v \in EvalOutputs :
          /\ nodes' = expand(nodes, leaf, child_priors)
          /\ value_estimate' = v
    /\ pc' = "backup"
    /\ current' = leaf
    /\ pre' = nodes'
    /\ target' = leaf
    /\ last' = "expand"
    /\ UNCHANGED <<leaf, num_reads, reads, result, caller, calls>>
    /\ UNCHANGED <<avars, svars, tvars>>

\* backup, one turn of the loop: current has a parent.
BackupStep ==
    /\ pc = "backup"
    /\ nodes[current].parent # None
    /\ nodes' = BackupAdd(nodes, current, value_estimate)
    /\ current' = nodes[current].parent
    /\ UNCHANGED <<pc, leaf, value_estimate, num_reads, reads, result,
                   caller, calls, pre, target, last>>
    /\ UNCHANGED <<avars, svars, tvars>>

\* backup returns: current is the root.  In UCT_search this ends the read.
BackupReturn ==
    /\ pc = "backup"
    /\ nodes[current].parent = None
    /\ last' = "backup"
    /\ pc' = IF caller = "client" THEN "idle" ELSE "loop"
    /\ reads' = IF caller = "client" THEN reads ELSE reads + 1
    /\ UNCHANGED <<nodes, current, leaf, value_estimate, num_reads, result,
                   caller, calls, pre, target>>
    /\ UNCHANGED <<avars, svars, tvars>>

\* UCT_search line 57
Return ==
    /\ pc = "loop"
    /\ reads = num_reads
    /\ result' = SearchResult(nodes)
    /\ pc' = "done"
    /\ UNCHANGED <<nodes, current, leaf, value_estimate, num_reads, reads,
                   caller, calls, pre, target, last>>
    /\ UNCHANGED <<avars, svars, tvars>>

\* ------------------------------------------------------- ADI orchestrator
NoFiles == << >>

\* _design_model: the dual-head network, compiled with Adam at initial_lr.
\* weights 0 names the initial parameters; lr_mults counts the times the
\* optimizer's learning rate was multiplied by lr_decay_gamma.
design_model ==
    [arch |-> "dual_head", weights |-> 0, optimizer |-> "adam", lr_mults |-> 0]

\* History values: no save pending, no save-then-load pair made.
NoSave == [made |-> FALSE, filename |-> "", model |-> design_model]
NoTrip == [made |-> FALSE, saved |-> design_model, found |-> FALSE]

\* ADI.__init__ without load_files.
AInit ==
    /\ config \in [create_dataset : BOOLEAN, save_model : BOOLEAN,
                    save_log : {TRUE}]
    /\ X = IF config.create_dataset THEN "dataset" ELSE "None"
    /\ current_iteration = 0
    /\ model = design_model
    /\ files = NoFiles
    /\ log_lines = 0
    /\ tpc = "idle"
    /\ targs = [generate_online_dataset |-> FALSE, kl |-> "None"]
    /\ batches_left = 0
    /\ fits = 0
    /\ raised = "None"
    /\ start_iteration = 0
    /\ processed = 0
    /\ fresh = TRUE
    /\ pending_save = NoSave
    /\ trip = NoTrip

\* The orchestrator as the engine's specifications hold it: built, unused.
AIdle ==
    /\ config = [create_dataset |-> FALSE, save_model |-> FALSE,
                 save_log |-> FALSE]
    /\ X = "None"
    /\ current_iteration = 0
    /\ model = design_model
    /\ files = NoFiles
    /\ log_lines = 0
    /\ tpc = "idle"
    /\ targs = [generate_online_dataset |-> FALSE, kl |-> "None"]
    /\ batches_left = 0
    /\ fits = 0
    /\ raised = "None"
    /\ start_iteration = 0
    /\ processed = 0
    /\ fresh = TRUE
    /\ pending_save = NoSave
    /\ trip = NoTrip

\* The engine as the orchestrator's specifications hold it: a lone root.
MIdle ==
    /\ nodes = << UCTNode(None, 0) >>
    /\ pc = "idle"
    /\ current = None
    /\ leaf = None
    /\ value_estimate = 0
    /\ num_reads = 0
    /\ reads = 0
    /\ result = << >>
    /\ caller = "client"
    /\ calls = 0
    /\ pre = nodes
    /\ target = None
    /\ last = "none"

\* save_trained_model's two paths for root name `filename`.
SavePaths(filename) ==
    [json |-> filename \o ".json", h5 |-> filename \o ".h5"]

\* load_trained_model's two paths for root name `filename`.
LoadPaths(filename) ==
    [json |-> "data/" \o filename \o ".json", h5 |-> "data/" \o filename \o ".h5"]

\* The file system after save_trained_model(filename) of model m: to_json()
\* holds the architecture, save_weights the parameters.
WriteModel(fs, filename, m) ==
    (SavePaths(filename).json :> [arch |-> m.arch])
    @@ (SavePaths(filename).h5 :> [weights |-> m.weights])
    @@ fs

\* The part of train's checkpoint name after "data/".
CheckpointName(k, l, it) ==
    "model_" \o ToString(cube_dim) \o "x" \o ToString(cube_dim)
    \o "_k" \o ToString(k) \o "_l" \o ToString(l)
    \o "_iter" \o ToString(it)

\* Root names a client passes to save_trained_model.
SaveRoots == {"ckpt", "data/ckpt"}

\* Root names a client passes to load_trained_model: the same, and the name
\* of train's first checkpoint.
LoadRoots ==
    SaveRoots \cup {CheckpointName(k_default, l_default, SaveFrequency)}

\* Values a client passes as load_trained_model's current_iteration.
LoadIterations == {0, SaveFrequency}

\* train's precondition assertion for the batch (lines 214-219).
BatchPrecondition ==
    IF targs.generate_online_dataset THEN targs.kl # "None"
    ELSE X # "None"

\* The learning-rate decay of a batch (lines 242-247) on model m.
LrDecay(m, it) ==
    IF it % LrDecayFreq = 0
    THEN [m EXCEPT !.lr_mults = @ + 1]
    ELSE m

\* model.fit: new parameters, named by the number of the fit.
Fit(m, n) == [m EXCEPT !.weights = n]

\* train(...) is called.
Train ==
    /\ tpc = "idle"
    /\ \E online \in BOOLEAN, kl \in {"None", "given"},
          batches_number \in 1 .. MaxBatches :
          /\ current_iteration + batches_number <= MaxIter
          /\ fits + batches_number <= MaxIter
          /\ targs' = [generate_online_dataset |-> online, kl |-> kl]
          /\ batches_left' = batches_number
    /\ tpc' = "train"
    /\ raised' = "None"
    /\ pending_save' = NoSave
    /\ trip' = NoTrip
    /\ UNCHANGED <<config, X, current_iteration, model, files, log_lines,
                   fits, start_iteration, processed, fresh>>
    /\ UNCHANGED <<mvars, svars, tvars>>

\* One iteration of train's loop whose assertion fails: the counter is
\* already incremented (line 212) when the AssertionError leaves train.
TrainAbort ==
    /\ tpc = "train"
    /\ batches_left > 0
    /\ ~BatchPrecondition
    /\ current_iteration' = current_iteration + 1
    /\ raised' = "AssertionError"
    /\ tpc' = "idle"
    /\ batches_left' = 0
    /\ UNCHANGED <<config, X, model, files, log_lines, targs, fits,
                   start_iteration, processed, fresh, pending_save, trip>>
    /\ UNCHANGED <<mvars, svars, tvars>>

\* One iteration of train's loop that runs through: increment, batch and
\* targets, learning-rate decay, fit, log line, checkpoint.
TrainBatch ==
    /\ tpc = "train"
    /\ batches_left > 0
    /\ BatchPrecondition
    /\ current_iteration' = current_iteration + 1
    /\ fits' = fits + 1
    /\ model' = Fit(LrDecay(model, current_iteration'), fits')
    /\ log_lines' =
          IF config.save_log /\ current_iteration' % LogFrequency = 0
          THEN log_lines + 1 ELSE log_lines
    /\ files' =
          IF config.save_model /\ current_iteration' % SaveFrequency = 0
          THEN WriteModel(files,
                          "data/" \o CheckpointName(k_default, l_default,
                                                    current_iteration'),
                          model')
          ELSE files
    /\ batches_left' = batches_left - 1
    /\ processed' = processed + 1
    /\ UNCHANGED <<config, X, tpc, targs, raised, start_iteration, fresh,
                   pending_save, trip>>
    /\ UNCHANGED <<mvars, svars, tvars>>

\* train returns after its last iteration.
TrainReturn ==
    /\ tpc = "train"
    /\ batches_left = 0
    /\ tpc' = "idle"
    /\ UNCHANGED <<config, X, current_iteration, model, files, log_lines,
                   targs, batches_left, fits, raised, start_iteration,
                   processed, fresh, pending_save, trip>>
    /\ UNCHANGED <<mvars, svars, tvars>>

\* save_trained_model(filename), called by a client.
SaveTrainedModel ==
    /\ tpc = "idle"
    /\ \E filename \in SaveRoots :
          /\ files' = WriteModel(files, filename, model)
          /\ pending_save' = [made |-> TRUE, filename |-> filename,
                               model |-> model]
    /\ raised' = "None"
    /\ trip' = NoTrip
    /\ UNCHANGED <<config, X, current_iteration, model, log_lines, tpc, targs,
                   batches_left, fits, start_iteration, processed, fresh>>
    /\ UNCHANGED <<mvars, svars, tvars>>

\* load_trained_model(filename, i), called by a client: open() raises when
\* the json file is missing; else the model is rebuilt from the two files
\* and compiled with rmsprop, and current_iteration is set.
LoadTrainedModel ==
    /\ tpc = "idle"
    /\ \E filename \in LoadRoots, i \in LoadIterations :
          LET paths == LoadPaths(filename)
              found == paths.json \in DOMAIN files /\ paths.h5 \in DOMAIN files
          IN  /\ trip' = IF pending_save.made
                            /\ pending_save.filename = filename
                         THEN [made |-> TRUE, saved |-> pending_save.model,
                               found |-> found]
                         ELSE NoTrip
              /\ \/ /\ ~found
                    /\ raised' = "FileNotFoundError"
                    /\ UNCHANGED <<model, current_iteration, start_iteration,
                                   processed, fresh>>
                 \/ /\ found
                    /\ raised' = "None"
                    /\ model' = [arch |-> files[paths.json].arch,
                                 weights |-> files[paths.h5].weights,
                                 optimizer |-> "rmsprop", lr_mults |-> 0]
                    /\ current_iteration' = i
                    /\ start_iteration' = i
                    /\ processed' = 0
                    /\ fresh' = FALSE
    /\ pending_save' = NoSave
    /\ UNCHANGED <<config, X, files, log_lines, tpc, targs, batches_left, fits>>
    /\ UNCHANGED <<mvars, svars, tvars>>

\* ------------------------------------------------------ scramble sequences
Actions == 0 .. (NumActions - 1)

\* Python's None as the initial inverse_previous_action_idx.
NoAction == -1

\* rubiks_cube.index_actions[str(action.get_inverse_action())] for the action
\* with index a: the index of the move that undoes it.  The moves come in
\* pairs (a face, two directions): 2f and 2f + 1 undo each other; with an odd
\* number of moves the last one undoes itself.
InverseIdx(a) ==
    IF a % 2 = 1 THEN a - 1
    ELSE IF a + 1 < NumActions THEN a + 1
    ELSE a

\* Variant of Candidates without the exclusion.
CandidatesAll(inverse_idx) == Actions

\* The list random.choice draws from (lines 114-116 and 293-295).
Candidates(inverse_idx) == {idx \in Actions : idx # inverse_idx}

SIdle ==
    /\ who = "_generate_dataset"
    /\ k_arg = 0
    /\ l_arg = 0
    /\ spc = "done"
    /\ iteration = 0
    /\ shuffle = 0
    /\ inverse_previous_action_idx = NoAction
    /\ applied = << >>
    /\ weights = << >>
    /\ score = 0

SInit ==
    /\ who \in {"_generate_dataset", "estimate_naive_accuracy"}
    /\ k_arg \in 1 .. MaxK
    /\ l_arg \in 1 .. MaxL
    /\ spc = "outer"
    /\ iteration = 0
    /\ shuffle = 0
    /\ inverse_previous_action_idx = NoAction
    /\ applied = << >>
    /\ weights = << >>
    /\ score = 0

\* The outer loop starts a sequence: a solved cube, no previous action.
StartSequence ==
    /\ spc = "outer"
    /\ iteration < l_arg
    /\ spc' = "inner"
    /\ shuffle' = 0
    /\ inverse_previous_action_idx' = NoAction
    /\ applied' = << >>
    /\ UNCHANGED <<who, k_arg, l_arg, iteration, weights, score>>
    /\ UNCHANGED <<mvars, avars, tvars>>

\* One scramble: choose, step, remember the inverse; _generate_dataset also
\* appends the sample and its weight 1 / (shuffle + 1).
ScrambleStep ==
    /\ spc = "inner"
    /\ shuffle < k_arg
    /\ \E action_idx \in Candidates(inverse_previous_action_idx) :
          /\ applied' = Append(applied, action_idx)
          /\ inverse_previous_action_idx' = InverseIdx(action_idx)
    /\ weights' = IF who = "_generate_dataset"
                  THEN Append(weights, shuffle + 1) ELSE weights
    /\ shuffle' = shuffle + 1
    /\ UNCHANGED <<who, k_arg, l_arg, spc, iteration, score>>
    /\ UNCHANGED <<mvars, avars, tvars>>

\* _generate_dataset: the sequence is complete.
EndSequence ==
    /\ spc = "inner"
    /\ shuffle = k_arg
    /\ who = "_generate_dataset"
    /\ iteration' = iteration + 1
    /\ spc' = "outer"
    /\ UNCHANGED <<who, k_arg, l_arg, shuffle, inverse_previous_action_idx,
                   applied, weights, score>>
    /\ UNCHANGED <<mvars, avars, tvars>>

\* estimate_naive_accuracy: predict on the scrambled cube, count a success
\* when the policy's argmax is the inverse of the last move (lines 299-301).
EndTrial ==
    /\ spc = "inner"
    /\ shuffle = k_arg
    /\ who = "estimate_naive_accuracy"
    /\ \E prediction \in Actions :
          score' = IF prediction = inverse_previous_action_idx
                   THEN score + 1 ELSE score
    /\ iteration' = iteration + 1
    /\ spc' = "outer"
    /\ UNCHANGED <<who, k_arg, l_arg, shuffle, inverse_previous_action_idx,
                   applied, weights>>
    /\ UNCHANGED <<mvars, avars, tvars>>

\* The outer loop is over.
ScrambleReturn ==
    /\ spc = "outer"
    /\ iteration = l_arg
    /\ spc' = "done"
    /\ UNCHANGED <<who, k_arg, l_arg, iteration, shuffle,
                   inverse_previous_action_idx, applied, weights, score>>
    /\ UNCHANGED <<mvars, avars, tvars>>

\* ------------------------------------------------- targets of one batch
Samples == 1 .. BatchSize
\* Rewards step() returns and values the network predicts.
RewardValues == {-1, 1}
NetValues == {0, 2}

TIdle ==
    /\ qpc = "done"
    /\ net = << >>
    /\ rewards = << >>
    /\ states = << >>
    /\ values = << >>
    /\ Y_v = << >>
    /\ Y_p = << >>

TInit ==
    /\ qpc = "step"
    /\ net \in [Samples \X Actions -> NetValues]
    /\ rewards = << >>
    /\ states = << >>
    /\ values = << >>
    /\ Y_v = << >>
    /\ Y_p = << >>

RECURSIVE Flatten(_)
\* states.reshape(-1, ...): the rows one after the other.
Flatten(rows) ==
    IF rows = << >> THEN << >> ELSE Head(rows) \o Flatten(Tail(rows))

\* values.reshape((batch_size, n)): row i holds flat[(i - 1) * n + 1 .. i * n].
Reshape(flat, batch_size, n) ==
    [i \in 1 .. batch_size |-> [a \in 1 .. n |-> flat[(i - 1) * n + a]]]

\* model.predict on the flattened child states: the value head's output.
Predict(flat_states) ==
    [j \in 1 .. Len(flat_states) |-> net[flat_states[j]]]

RECURSIVE ArgmaxFrom(_, _, _)
\* np.argmax of a row: the first index of the maximum.
ArgmaxFrom(row, a, best) ==
    IF a > Len(row) THEN best
    ELSE ArgmaxFrom(row, a + 1, IF row[a] > row[best] THEN a ELSE best)

RECURSIVE ArgmaxLastFrom(_, _, _)
ArgmaxLastFrom(row, a, best) ==
    IF a > Len(row) THEN best
    ELSE ArgmaxLastFrom(row, a + 1, IF row[a] >= row[best] THEN a ELSE best)

\* Variant of np_argmax returning the last index of the maximum.
np_argmax_last(row) == ArgmaxLastFrom(row, 2, 1) - 1

np_argmax(row) == ArgmaxFrom(row, 2, 1) - 1

RECURSIVE MaxOfFrom(_, _, _)
\* np.max of a row.
MaxOfFrom(row, a, best) ==
    IF a > Len(row) THEN best
    ELSE MaxOfFrom(row, a + 1, IF row[a] > best THEN row[a] ELSE best)

np_max(row) == MaxOfFrom(row, 2, row[1])

\* np.eye(n)[idx]
EyeRow(n, idx) == [a \in 1 .. n |-> IF a - 1 = idx THEN 1 ELSE 0]

\* rewards + values, elementwise
AddRows(r, v) == [i \in 1 .. Len(r) |-> [a \in 1 .. Len(r[i]) |-> r[i][a] + v[i][a]]]

\* Lines 224-231 for one sample X_i: step every action from it.
StepSample ==
    /\ qpc = "step"
    /\ Len(rewards) < BatchSize
    /\ \E rewards_i \in [1 .. NumActions -> RewardValues] :
          rewards' = Append(rewards, rewards_i)
    /\ states' = Append(states,
                        [a \in 1 .. NumActions |-> <<Len(states) + 1, a - 1>>])
    /\ UNCHANGED <<qpc, net, values, Y_v, Y_p>>
    /\ UNCHANGED <<mvars, avars, svars>>

\* The loop over the batch is over.
StepsDone ==
    /\ qpc = "step"
    /\ Len(rewards) = BatchSize
    /\ qpc' = "predict"
    /\ UNCHANGED <<net, rewards, states, values, Y_v, Y_p>>
    /\ UNCHANGED <<mvars, avars, svars>>

\* Lines 233-237: flatten, predict, reshape.
PredictValues ==
    /\ qpc = "predict"
    /\ values' = Reshape(Predict(Flatten(states)), BatchSize, NumActions)
    /\ qpc' = "targets"
    /\ UNCHANGED <<net, rewards, states, Y_v, Y_p>>
    /\ UNCHANGED <<mvars, avars, svars>>

\* Lines 239-240.
ComputeTargets ==
    /\ qpc = "targets"
    /\ Y_v' = [i \in Samples |-> np_max(AddRows(rewards, values)[i])]
    /\ Y_p' = [i \in Samples |->
                  EyeRow(NumActions, np_argmax(AddRows(rewards, values)[i]))]
    /\ qpc' = "done"
    /\ UNCHANGED <<net, rewards, states, values>>
    /\ UNCHANGED <<mvars, avars, svars>>

Init == MInit /\ AIdle /\ SIdle /\ TIdle

Next ==
    \/ CallSelectLeaf
    \/ SelectStep
    \/ SelectReturn
    \/ EvaluateExpand
    \/ BackupStep
    \/ BackupReturn
    \/ Return

Spec == Init /\ [][Next]_vars

\* ------------------------------------------------- a client of UCTNode
\* SpecAPI: a client that holds a root and calls the methods of UCTNode
\* itself, in any order: select_leaf on the root, expand on the root or on
\* the leaf select_leaf returned, backup on any node.
APIInit ==
    /\ nodes = << UCTNode(None, 0) >>
    /\ pc = "idle"
    /\ current = None
    /\ leaf = None
    /\ value_estimate = 0
    /\ num_reads = 0
    /\ reads = 0
    /\ result = << >>
    /\ caller = "client"
    /\ calls = 0
    /\ pre = nodes
    /\ target = None
    /\ last = "none"

\* root.select_leaf()
ApiSelectLeaf ==
    /\ pc = "idle"
    /\ calls < MaxCalls
    /\ calls' = calls + 1
    /\ pc' = "select"
    /\ current' = Root
    /\ pre' = nodes
    /\ target' = Root
    /\ UNCHANGED <<nodes, leaf, value_estimate, num_reads, reads, result,
                   caller, last>>
    /\ UNCHANGED <<avars, svars, tvars>>

\* n.expand(child_priors), on a node that is not expanded: the root the
\* client holds, or the node select_leaf returned last.
ApiExpand ==
    /\ pc = "idle"
    /\ calls < MaxCalls
    /\ calls' = calls + 1
    /\ \E n \in {IF leaf = None THEN Root ELSE leaf},
          child_priors \in PriorVectors :
          /\ ~nodes[n].is_expanded
          /\ nodes' = expand(nodes, n, child_priors)
          /\ target' = n
    /\ pre' = nodes
    /\ last' = "expand"
    /\ UNCHANGED <<pc, current, leaf, value_estimate, num_reads, reads,
                   result, caller>>
    /\ UNCHANGED <<avars, svars, tvars>>

\* n.backup(v)
ApiBackup ==
    /\ pc = "idle"
    /\ calls < MaxCalls
    /\ calls' = calls + 1
    /\ \E n \in 1 .. Len(nodes), v \in EvalOutputs :
          /\ current' = n
          /\ target' = n
          /\ value_estimate' = v
    /\ pc' = "backup"
    /\ pre' = nodes
    /\ UNCHANGED <<nodes, leaf, num_reads, reads, result, caller, last>>
    /\ UNCHANGED <<avars, svars, tvars>>

NextAPI ==
    \/ ApiSelectLeaf
    \/ ApiExpand
    \/ ApiBackup
    \/ SelectStep
    \/ SelectReturn
    \/ BackupStep
    \/ BackupReturn

InitAPI == APIInit /\ AIdle /\ SIdle /\ TIdle

SpecAPI == InitAPI /\ [][NextAPI]_vars

InitADI == MIdle /\ AInit /\ SIdle /\ TIdle

NextADI ==
    \/ Train
    \/ TrainAbort
    \/ TrainBatch
    \/ TrainReturn
    \/ SaveTrainedModel
    \/ LoadTrainedModel

SpecADI == InitADI /\ [][NextADI]_vars

InitScramble == MIdle /\ AIdle /\ SInit /\ TIdle

NextScramble ==
    \/ StartSequence
    \/ ScrambleStep
    \/ EndSequence
    \/ EndTrial
    \/ ScrambleReturn

SpecScramble == InitScramble /\ [][NextScramble]_vars

InitTargets == MIdle /\ AIdle /\ SIdle /\ TInit

NextTargets ==
    \/ StepSample
    \/ StepsDone
    \/ PredictValues
    \/ ComputeTargets

SpecTargets == InitTargets /\ [][NextTargets]_vars

\* Fairness: the engine is single-threaded and a method that was called runs
\* on; the client is never obliged to make another call.
SpecAPIFair ==
    /\ SpecAPI
    /\ WF_vars(SelectStep)
    /\ WF_vars(SelectReturn)
    /\ WF_vars(BackupStep)
    /\ WF_vars(BackupReturn)

\* ------------------------------------------------ properties of the engine
RECURSIVE Ancestors(_, _)
\* The proper ancestors of node n in tree t.
Ancestors(t, n) ==
    IF t[n].parent = None THEN {}
    ELSE {t[n].parent} \cup Ancestors(t, t[n].parent)

RECURSIVE SumSeq(_, _)
SumSeq(f, i) == IF i = 0 THEN 0 ELSE f[i] + SumSeq(f, i - 1)

\* Sum over the children c of n of number_visits, plus `bonus` for each
\* expanded child.
ChildVisits(t, n, bonus) ==
    LET kids == t[n].children
        term == [i \in 1 .. Len(kids) |->
                    t[kids[i]].number_visits
                    + (IF t[kids[i]].is_expanded THEN bonus ELSE 0)]
    IN  SumSeq(term, Len(kids))

Expanded(t) == {n \in 1 .. Len(t) : t[n].is_expanded}

\* C1: UCT_search returns (move, child) with child = root.children[move],
\* no child of the root has more visits than it, and every child with a lower
\* move index has strictly fewer (ties go to the lowest move index).
SearchReturnsFirstMostVisited ==
    pc = "done" =>
        LET move == result[1]
            child == result[2]
            kids == nodes[Root].children
        IN  /\ move \in Moves
            /\ child = kids[move + 1]
            /\ \A j \in Moves :
                  /\ nodes[kids[j + 1]].number_visits <= nodes[child].number_visits
                  /\ j < move =>
                        nodes[kids[j + 1]].number_visits < nodes[child].number_visits

\* C1 witness: a search of at least two reads returned move 0 while a later
\* child has as many visits.
SearchTieWitness ==
    /\ pc = "done"
    /\ num_reads >= 2
    /\ result[1] = 0
    /\ \E j \in Moves :
          /\ j > 0
          /\ nodes[nodes[Root].children[j + 1]].number_visits
                = nodes[result[2]].number_visits

\* C2 as stated: after N reads the visits of the root's children sum to N.
ChildVisitsSumToReads ==
    pc = "done" => ChildVisits(nodes, Root, 0) = num_reads

\* C2 amended: after N >= 1 reads, the visits of the root's children plus the
\* number of expanded children of the root sum to N - 1: every read but the
\* first passes through one child of the root, and a node's number_visits
\* counts only the passes made once it is expanded.
ChildVisitsPlusExpandedSumToReadsLessOne ==
    pc = "done" => ChildVisits(nodes, Root, 1) = num_reads - 1

\* C2 witness: a finished search in which a child of the root was passed
\* through after its expansion.
ChildVisitedWitness ==
    /\ pc = "done"
    /\ \E j \in Moves : nodes[nodes[Root].children[j + 1]].number_visits >= 1

BackupCompleted == last = "backup" /\ pc \in {"idle", "loop", "done"}

\* C3: backup(v) on x adds v + 1 to total_value of x and of each proper
\* ancestor of x that has a parent, and changes nothing else in the tree.
BackupFrame ==
    BackupCompleted =>
        /\ Len(nodes) = Len(pre)
        /\ \A n \in 1 .. Len(nodes) :
              LET on_path == /\ n \in {target} \cup Ancestors(pre, target)
                             /\ pre[n].parent # None
              IN  nodes[n] =
                     [pre[n] EXCEPT !.total_value =
                         IF on_path THEN @ + value_estimate + Grain ELSE @]

\* C3 witness: backup of a non-zero value completed on a grandchild of the
\* root.
BackupGrandchildWitness ==
    /\ BackupCompleted
    /\ value_estimate > 0
    /\ nodes[target].parent # None
    /\ nodes[nodes[target].parent].parent = Root

SelectCompleted == last = "select_leaf" /\ pc \in {"idle", "evaluate"}

\* C4, effect: select_leaf returns a node that is not expanded, has added 1
\* to number_visits and subtracted 1 from total_value of each proper ancestor
\* of the returned node (the expanded nodes passed, the root included), and
\* has changed nothing else, the returned node included.
SelectLeafEffect ==
    SelectCompleted =>
        /\ ~nodes[leaf].is_expanded
        /\ Len(nodes) = Len(pre)
        /\ \A n \in Ancestors(pre, leaf) : pre[n].is_expanded
        /\ \A n \in 1 .. Len(nodes) :
              nodes[n] =
                 IF n \in Ancestors(pre, leaf)
                 THEN [pre[n] EXCEPT !.number_visits = @ + 1,
                                     !.total_value = @ - Grain]
                 ELSE pre[n]

\* C4: select_leaf on the root terminates, with the effect above.
SelectLeafTerminates ==
    /\ []SelectLeafEffect
    /\ (pc = "select") ~> (pc # "select")

\* C4 witness: two calls of select_leaf in succession on an expanded root
\* (three calls in all: expand, select_leaf, select_leaf).
SelectTwiceWitness ==
    /\ SelectCompleted
    /\ caller = "client"
    /\ calls = 3
    /\ pre[Root].number_visits = 1
    /\ nodes[Root].number_visits = 2

ReadCompleted == pc \in {"loop", "done"} /\ reads >= 1

\* C10: after every completed read each expanded node's number_visits is the
\* sum over its children of their number_visits, plus one per expanded child;
\* nodes that are not expanded have number_visits 0; the root has
\* reads - 1 visits and exactly `reads` nodes are expanded.
VisitConservation ==
    ReadCompleted =>
        /\ \A n \in 1 .. Len(nodes) :
              nodes[n].number_visits =
                 IF nodes[n].is_expanded THEN ChildVisits(nodes, n, 1) ELSE 0
        /\ nodes[Root].number_visits = reads - 1
        /\ Cardinality(Expanded(nodes)) = reads

\* C10 witness: three reads done, the third through an expanded child.
DeepReadWitness ==
    /\ ReadCompleted
    /\ reads = 3
    /\ \E n \in 1 .. Len(nodes) :
          n # Root /\ nodes[n].is_expanded /\ nodes[n].number_visits = 1

\* ------------------------------------------ properties of the orchestrator
\* C5 as stated: on the model built at construction, after n processed
\* batches the learning rate has been multiplied by lr_decay_gamma
\* floor(n / lr_decay_freq) times.
LrDecayedEveryFreqBatches ==
    fresh => model.lr_mults = processed \div LrDecayFreq

\* C6 as stated: save_trained_model(f) followed, with no training in
\* between, by load_trained_model(f, i) succeeds and leaves the saved model's
\* architecture and weights in self.model.
SaveLoadRoundTrip ==
    trip.made =>
        /\ trip.found
        /\ raised = "None"
        /\ model.arch = trip.saved.arch
        /\ model.weights = trip.saved.weights

\* C9 as stated: current_iteration is its value at construction or at the
\* last load plus the number of batches processed since, aborted train calls
\* included.
IterationCountsProcessedBatches ==
    current_iteration = start_iteration + processed

\* C7: in every scramble sequence no move is the inverse of the move applied
\* just before it, and the first move is drawn from all the legal moves.
NoImmediateInverse ==
    /\ \A i \in 2 .. Len(applied) : applied[i] # InverseIdx(applied[i - 1])
    /\ (spc = "inner" /\ shuffle = 0) =>
          Candidates(inverse_previous_action_idx) = Actions

\* C7 witness: a sequence of _generate_dataset with three moves applied.
ThreeScramblesWitness ==
    /\ who = "_generate_dataset"
    /\ Len(applied) = 3
    /\ applied[2] # applied[1]

\* The quantity train maximises for sample i and move a.
Lookahead(i, a) == rewards[i][a + 1] + net[<<i, a>>]

\* C8: for every sample the value target is the maximum over the moves of
\* reward + predicted value of the child, and the policy target is one-hot
\* at the lowest move index attaining it.
TargetsAreBestLookahead ==
    qpc = "done" =>
        \A i \in Samples :
            \E m \in Actions :
                /\ \A a \in Actions : Lookahead(i, a) <= Lookahead(i, m)
                /\ \A a \in Actions : a < m => Lookahead(i, a) < Lookahead(i, m)
                /\ Y_v[i] = Lookahead(i, m)
                /\ \A a \in Actions : Y_p[i][a + 1] = IF a = m THEN 1 ELSE 0

\* C8 witness: targets computed for a sample whose maximum is attained by two
\* moves, neither of them move 0.
TiedTargetsWitness ==
    /\ qpc = "done"
    /\ \E a, b \in Actions :
          /\ 0 < a
          /\ a < b
          /\ Lookahead(1, a) = Y_v[1]
          /\ Lookahead(1, b) = Y_v[1]
          /\ Lookahead(1, 0) < Y_v[1]

====
